---- MODULE Spec2Model ----
(***************************************************************************)
(* A model of three programs of torch_em:                                  *)
(*   - the training commands of torch_em/cli.py (train_2d_unet,            *)
(*     train_3d_unet) with _get_loaders, _get_loader and _get_offsets;     *)
(*   - experiments/shallow2deep/em-mitochondria/train_mito_3d.py;          *)
(*   - UNETR.forward of torch_em/model/unetr.py, on tensor shapes;         *)
(*   - SelfTrainingTensorboardLogger of torch_em/self_training/logger.py,  *)
(*     called by a trainer.                                                *)
(* One behaviour runs one program: Init picks the program (cmd) and its    *)
(* inputs, the actions are the steps of that program in source order. A    *)
(* raised exception ends the run in pc = "raised" with exc naming the      *)
(* exception type and the source line that raised it.                      *)
(***************************************************************************)
EXTENDS Integers, Sequences, FiniteSets, TLC

VARIABLES
    cmd,              \* the program that runs
    args,             \* the argparse Namespace (a record: its fields are the attributes it has)
    pc,               \* position in the program
    exc,              \* the exception that ended the run, NoExc while none
    call,             \* cli: the arguments of the running _get_loader call
    label_transform,  \* cli: local label_transform of _get_loader
    patch_checked,    \* cli: how many times the patch shape validation ran
    ds,               \* cli: local ds of _get_loader
    n_datasets,       \* cli: how many datasets default_segmentation_dataset created
    train_loader,     \* cli: train_loader of _get_loaders / train_*d_unet
    val_loader,       \* cli: val_loader of _get_loaders / train_*d_unet
    model,            \* cli: the network class chosen by train_*d_unet
    loss,             \* cli and mito: the loss chosen
    datasets,         \* mito: datasets of train_shallow2deep (the normalized names)
    name,             \* mito: name of train_shallow2deep
    files,            \* mito: the files below DATA_ROOT
    rf_i,             \* mito: index of the dataset the loop of require_rfs is at
    out_folders,      \* mito: out_folder of require_rfs_ds, per dataset it was called for
    prepared,         \* mito: what require_ds returned, per dataset it returned for
    rf_patterns,      \* mito: folder of rf_pattern in get_loader, per selected dataset
    loaders,          \* mito: the loaders get_loader returned, by split
    net,              \* unetr: the constructed UNETR (its attributes)
    x,                \* unetr: shape of the local x of forward
    original_shape,   \* unetr: local original_shape of forward
    input_shape,      \* unetr: local input_shape of forward
    z12,              \* unetr: shape of the local z12 of forward
    from_encoder,     \* unetr: whether the local from_encoder of forward is bound
    skips,            \* unetr: sides of z9, z6, z3, z0 of forward
    logger,           \* logger: the constructed SelfTrainingTensorboardLogger (its attributes)
    tb,               \* logger: what the SummaryWriter self.tb was asked to write, in order
    calls             \* logger: the calls of the logger's methods made so far, in order

cliVars == <<call, label_transform, patch_checked, ds, n_datasets, train_loader, val_loader, model, loss>>

mitoVars == <<datasets, name, files, rf_i, out_folders, prepared, rf_patterns, loaders>>

netVars == <<net, x, original_shape, input_shape, z12, from_encoder, skips>>

logVars == <<logger, tb, calls>>

vars == <<cmd, args, pc, exc, cliVars, mitoVars, netVars, logVars>>

----------------------------------------------------------------------------
\* Bounds of the model.

\* Largest dataset length (len(ds)) drawn when a dataset is created.
MaxSamples == 4

\* Longest list given to --datasets.
MaxDatasets == 3

\* Largest value given to --n_rfs.
MaxRfs == 2

\* Largest out_channels a UNETR is constructed with.
MaxOutChannels == 2

\* Largest patch grid of an encoder: its img_size is 16 times its grid.
MaxGrid == 1

\* The input heights and widths tried are within MaxDelta of the encoder's img_size.
MaxDelta == 1

\* Most calls made to a logger in one run.
MaxCalls == 2

\* Largest step a logger is called with.
MaxStep == 2

\* Largest trainer.log_image_interval a logger is constructed with.
MaxInterval == 2

----------------------------------------------------------------------------
\* Values shared by the programs.

None == "None"

NoExc == [type |-> "none", line |-> 0, about |-> ""]

Raise(t, l, a) == [type |-> t, line |-> l, about |-> a]

HasAttr(ns, a) == a \in DOMAIN ns

Range(s) == {s[i] : i \in DOMAIN s}

Permutations1(n) == {p \in [1..n -> 1..n] : \A i, j \in 1..n : p[i] = p[j] => i = j}

----------------------------------------------------------------------------
\* torch_em/cli.py: the training commands.

CliCmds == {"train_2d_unet", "train_3d_unet"}

\* The modes the if/elif chain of _get_loader handles.
HandledModes == {"affinities", "affinities_and_foreground", "boundaries",
                 "boundaries_and_foreground", "foreground"}

AffinityModes == {"affinities", "affinities_and_foreground"}

\* The tuple label_modes of _get_loader, as written (it is only used in the message).
label_modes == <<"affinties", "affinities_and_foreground", "boundaries",
                 "boundaries_and_foreground", "foreground">>

\* Values of -m/--label_mode tried: not given, the handled ones, and two unknown ones.
LabelModeInputs == {None} \cup HandledModes \cup {"affinties", "instances"}

\* Values of -p/--patch_shape tried.
PatchShapeInputs == {<<64, 64>>, <<1, 64, 64>>, <<32, 64, 64>>, <<64>>}

\* Values of --train_fraction tried, in tenths (default 0.8).
TrainFractionInputs == {0, 2, 5, 8, 10, 12}

\* Values of -s/--scale_factors tried (json encoded), None when not given.
ScaleFactorInputs == {None, "[[1,2,2],[2,2,2]]"}

\* parse_args of the parser of _get_training_parser. nargs="+" options that are not
\* given are None, written <<>> here (argparse never yields an empty list for them).
TrainingNamespaces ==
    [training_inputs : {<<"train.h5">>},
     training_labels : {<<"train.h5">>},
     training_input_key : {"raw"},
     training_label_key : {"labels"},
     validation_inputs : {<<>>, <<"val.h5">>},
     validation_labels : {<<>>, <<"val.h5">>},
     validation_input_key : {"val_raw"},
     validation_label_key : {"val_labels"},
     batch_size : {1},
     patch_shape : PatchShapeInputs,
     n_iterations : {25000},
     label_mode : LabelModeInputs,
     name : {None},
     train_fraction : TrainFractionInputs]

_get_training_parser == {a \in TrainingNamespaces :
    (a.validation_inputs = <<>>) <=> (a.validation_labels = <<>>)}

\* train_3d_unet adds -s/--scale_factors to the parser.
Parser3d == {[k \in DOMAIN a \cup {"scale_factors"} |->
                 IF k = "scale_factors" THEN s ELSE a[k]] :
             a \in _get_training_parser, s \in ScaleFactorInputs}

Ndim == IF cmd = "train_2d_unet" THEN 2 ELSE 3

_get_offsets(ndim, scale_factors) ==
    IF ndim = 2
    THEN <<<<-1, 0>>, <<0, -1>>, <<-3, 0>>, <<0, -3>>, <<-9, 0>>, <<0, -9>>, <<-27, 0>>, <<0, -27>>>>
    ELSE IF ndim = 3 /\ scale_factors = None
    THEN <<<<-1, 0, 0>>, <<0, -1, 0>>, <<0, 0, -1>>,
           <<-3, 0, 0>>, <<0, -3, 0>>, <<0, 0, -3>>,
           <<-9, 0, 0>>, <<0, -9, 0>>, <<0, 0, -9>>,
           <<-27, 0, 0>>, <<0, -27, 0>>, <<0, 0, -27>>>>
    ELSE <<<<-1, 0, 0>>, <<0, -1, 0>>, <<0, 0, -1>>,
           <<-2, 0, 0>>, <<0, -3, 0>>, <<0, 0, -3>>,
           <<-3, 0, 0>>, <<0, -9, 0>>, <<0, 0, -9>>,
           <<-4, 0, 0>>, <<0, -27, 0>>, <<0, 0, -27>>>>

NoTransform == [kind |-> None, offsets |-> <<>>, add_binary_target |-> FALSE]

AffinityTransform(offsets, add_binary_target) ==
    [kind |-> "AffinityTransform", offsets |-> offsets, add_binary_target |-> add_binary_target]

BoundaryTransform(add_binary_target) ==
    [kind |-> "BoundaryTransform", offsets |-> <<>>, add_binary_target |-> add_binary_target]

labels_to_binary == [kind |-> "labels_to_binary", offsets |-> <<>>, add_binary_target |-> FALSE]

NoCall == [which |-> None, input_paths |-> <<>>, input_key |-> None,
           label_paths |-> <<>>, label_key |-> None, perform_split |-> FALSE]

NoDataset == [input_paths |-> <<>>, input_key |-> None, label_paths |-> <<>>, label_key |-> None,
              patch_shape |-> <<>>, ndim |-> 0, label_transform |-> NoTransform, len |-> 0]

NoLoader == [built |-> FALSE, dataset |-> NoDataset, indices |-> {}, batch_size |-> 0]

\* Lines 68-94 of _get_loader: the label transformation of args.label_mode, or the
\* exception the chain raises. Reading an attribute the Namespace does not have raises
\* AttributeError; the message of line 94 is built (reading args.label_model) before
\* the ValueError is created.
LabelTransformOf(a, ndim) ==
    IF a.label_mode = None
    THEN [exc |-> NoExc, transform |-> NoTransform]
    ELSE IF a.label_mode = "affinities"
    THEN IF HasAttr(a, "scale_factors")
         THEN [exc |-> NoExc,
               transform |-> AffinityTransform(_get_offsets(ndim, a.scale_factors), FALSE)]
         ELSE [exc |-> Raise("AttributeError", 79, "scale_factors"), transform |-> NoTransform]
    ELSE IF a.label_mode = "affinities_and_foreground"
    THEN IF HasAttr(a, "scale_factors")
         THEN [exc |-> NoExc,
               transform |-> AffinityTransform(_get_offsets(ndim, a.scale_factors), TRUE)]
         ELSE [exc |-> Raise("AttributeError", 85, "scale_factors"), transform |-> NoTransform]
    ELSE IF a.label_mode = "boundaries"
    THEN [exc |-> NoExc, transform |-> BoundaryTransform(FALSE)]
    ELSE IF a.label_mode = "boundaries_and_foreground"
    THEN [exc |-> NoExc, transform |-> BoundaryTransform(TRUE)]
    ELSE IF a.label_mode = "foreground"
    THEN [exc |-> NoExc, transform |-> labels_to_binary]
    ELSE IF HasAttr(a, "label_model")
    THEN [exc |-> Raise("ValueError", 94, a.label_model), transform |-> NoTransform]
    ELSE [exc |-> Raise("AttributeError", 94, "label_model"), transform |-> NoTransform]

\* Lines 97-105 of _get_loader: TRUE when the validation raises.
PatchShapeInvalid(patch_shape, ndim) ==
    IF ndim = 2
    THEN Len(patch_shape) # 2 /\ patch_shape[1] # 1
    ELSE Len(patch_shape) # 3

\* Lines 108-113: the dataset of n samples default_segmentation_dataset builds.
default_segmentation_dataset(c, patch_shape, ndim, transform, n) ==
    [input_paths |-> c.input_paths, input_key |-> c.input_key,
     label_paths |-> c.label_paths, label_key |-> c.label_key,
     patch_shape |-> patch_shape, ndim |-> ndim, label_transform |-> transform, len |-> n]

\* int(math.floor(n * frac)) of torch's random_split for the fraction tenths/10. The
\* product is a float: when the exact product is a whole number the float may lie just
\* below it (5 * (1.0 - 0.8) = 0.9999999999999998), so both outcomes are possible.
FloorOfFraction(n, tenths) ==
    LET e == (n * tenths) \div 10
    IN  IF (n * tenths) % 10 = 0 /\ e >= 1 THEN {e, e - 1} ELSE {e}

\* Line 117-118: the lengths random_split(ds, [f, 1.0 - f]) computes, f = tenths/10:
\* the floors, then the remainder handed out one by one in round-robin order.
SplitLengths(n, tenths) ==
    {<<l[1] + ((n - l[1] - l[2] + 1) \div 2), l[2] + ((n - l[1] - l[2]) \div 2)>> :
        l \in FloorOfFraction(n, tenths) \X FloorOfFraction(n, 10 - tenths)}

\* random_split raises ValueError for a fraction outside [0, 1].
SplitInvalid(tenths) == tenths < 0 \/ tenths > 10

\* The two Subsets of random_split for the permutation p of randperm: consecutive
\* slices of p of the given lengths.
random_split(p, lengths) ==
    <<{p[i] : i \in 1..lengths[1]},
      {p[i] : i \in (lengths[1] + 1)..(lengths[1] + lengths[2])}>>

\* get_data_loader(dataset restricted to indices, batch_size, shuffle=True).
get_data_loader(dataset, indices, batch_size) ==
    [built |-> TRUE, dataset |-> dataset, indices |-> indices, batch_size |-> batch_size]

\* The split of lines 119-124 with the validation loader built over ds_train too.
SplitLoadersSameSubset(dataset, parts, batch_size) ==
    <<get_data_loader(dataset, parts[1], batch_size),
      get_data_loader(dataset, parts[1], batch_size)>>

\* Lines 119-124: the two loaders of the split, in the order (train_loader, val_loader).
SplitLoaders(dataset, parts, batch_size) ==
    <<get_data_loader(dataset, parts[1], batch_size),
      get_data_loader(dataset, parts[2], batch_size)>>

\* Lines 138-141, 143-146 and 147-150: the arguments _get_loaders passes to _get_loader.
SplitCall(a) ==
    [which |-> "split", input_paths |-> a.training_inputs, input_key |-> a.training_input_key,
     label_paths |-> a.training_labels, label_key |-> a.training_label_key,
     perform_split |-> TRUE]

TrainCall(a) ==
    [which |-> "train", input_paths |-> a.training_inputs, input_key |-> a.training_input_key,
     label_paths |-> a.training_labels, label_key |-> a.training_label_key,
     perform_split |-> FALSE]

ValCall(a) ==
    [which |-> "val", input_paths |-> a.validation_inputs, input_key |-> a.validation_key,
     label_paths |-> a.validation_labels, label_key |-> a.validation_label_key,
     perform_split |-> FALSE]

NoShape == [c |-> 0, h |-> 0, w |-> 0]

NoNet == [encoder |-> [given_as |-> None, class |-> None, img_size |-> 0, grid |-> 0, in_chans |-> 0],
          use_sam_stats |-> FALSE, use_mae_stats |-> FALSE, use_skip_connection |-> FALSE,
          resize_input |-> FALSE, out_channels |-> 0, embed_dim |-> 0]

\* The variables of UNETR.forward while another program runs.
IdleNet ==
    /\ net = NoNet
    /\ x = NoShape
    /\ original_shape = <<0, 0>>
    /\ input_shape = <<0, 0>>
    /\ z12 = NoShape
    /\ from_encoder = "unbound"
    /\ skips = <<>>

NoLogger == [log_dir |-> None, log_image_interval |-> 0]

\* The variables of the logger while another program runs.
IdleLog ==
    /\ logger = NoLogger
    /\ tb = <<>>
    /\ calls = <<>>

\* The variables of the other programs while a training command runs.
IdleMito ==
    /\ datasets = <<>>
    /\ name = <<>>
    /\ files = {}
    /\ rf_i = 0
    /\ out_folders = <<>>
    /\ prepared = <<>>
    /\ rf_patterns = <<>>
    /\ loaders = <<>>

----------------------------------------------------------------------------
\* State after the command line is parsed.

InitCli ==
    /\ cmd \in CliCmds
    /\ args \in (IF cmd = "train_2d_unet" THEN _get_training_parser ELSE Parser3d)
    /\ pc = "_get_loaders"
    /\ exc = NoExc
    /\ call = NoCall
    /\ label_transform = NoTransform
    /\ patch_checked = 0
    /\ ds = NoDataset
    /\ n_datasets = 0
    /\ train_loader = NoLoader
    /\ val_loader = NoLoader
    /\ model = None
    /\ loss = None
    /\ IdleMito
    /\ IdleNet
    /\ IdleLog

\* _get_loaders, lines 135-146: the first call of _get_loader is entered.
GetLoaders ==
    /\ cmd \in CliCmds
    /\ pc = "_get_loaders"
    /\ call' = IF args.validation_inputs = <<>> THEN SplitCall(args) ELSE TrainCall(args)
    /\ pc' = "label_mode"
    /\ UNCHANGED <<mitoVars, netVars, logVars, cmd, args, exc, label_transform, patch_checked, ds, n_datasets,
                   train_loader, val_loader, model, loss>>

\* _get_loader, lines 68-94.
LabelMode ==
    /\ cmd \in CliCmds
    /\ pc = "label_mode"
    /\ LET r == LabelTransformOf(args, Ndim)
       IN  /\ label_transform' = r.transform
           /\ exc' = r.exc
           /\ pc' = IF r.exc = NoExc THEN "patch_shape" ELSE "raised"
    /\ ds' = NoDataset
    /\ UNCHANGED <<mitoVars, netVars, logVars, cmd, args, call, patch_checked, n_datasets, train_loader, val_loader, model, loss>>

\* _get_loader, lines 97-105.
PatchShape ==
    /\ cmd \in CliCmds
    /\ pc = "patch_shape"
    /\ patch_checked' = patch_checked + 1
    /\ IF PatchShapeInvalid(args.patch_shape, Ndim)
       THEN /\ exc' = Raise("ValueError", IF Ndim = 2 THEN 100 ELSE 103, "patch_shape")
            /\ pc' = "raised"
       ELSE /\ exc' = exc
            /\ pc' = "dataset"
    /\ UNCHANGED <<mitoVars, netVars, logVars, cmd, args, call, label_transform, ds, n_datasets, train_loader, val_loader,
                   model, loss>>

\* _get_loader, lines 108-113: the dataset has some length n.
CreateDataset ==
    /\ cmd \in CliCmds
    /\ pc = "dataset"
    /\ \E n \in 1..MaxSamples :
          ds' = default_segmentation_dataset(call, args.patch_shape, Ndim, label_transform, n)
    /\ n_datasets' = n_datasets + 1
    /\ pc' = "loader"
    /\ UNCHANGED <<mitoVars, netVars, logVars, cmd, args, exc, call, label_transform, patch_checked, train_loader,
                   val_loader, model, loss>>

\* _get_loader, lines 116-125, and the return into line 138 of _get_loaders. A loader
\* with shuffle=True over an empty Subset raises ValueError (RandomSampler).
LoaderSplit ==
    /\ cmd \in CliCmds
    /\ pc = "loader"
    /\ call.perform_split
    /\ IF SplitInvalid(args.train_fraction)
       THEN /\ exc' = Raise("ValueError", 118, "train_fraction")
            /\ pc' = "raised"
            /\ UNCHANGED <<train_loader, val_loader>>
       ELSE \E lengths \in SplitLengths(ds.len, args.train_fraction) :
            \E p \in Permutations1(ds.len) :
               LET parts == random_split(p, lengths)
                   pair == SplitLoaders(ds, parts, args.batch_size)
               IN  IF parts[1] = {}
                   THEN /\ exc' = Raise("ValueError", 119, "num_samples")
                        /\ pc' = "raised"
                        /\ UNCHANGED <<train_loader, val_loader>>
                   ELSE IF parts[2] = {}
                   THEN /\ exc' = Raise("ValueError", 122, "num_samples")
                        /\ pc' = "raised"
                        /\ UNCHANGED <<train_loader, val_loader>>
                   ELSE /\ train_loader' = pair[1]
                        /\ val_loader' = pair[2]
                        /\ exc' = exc
                        /\ pc' = "_determine_channels"
    /\ UNCHANGED <<mitoVars, netVars, logVars, cmd, args, call, label_transform, patch_checked, ds, n_datasets, model, loss>>

\* _get_loader, lines 126-130, and the return into line 143 or 147 of _get_loaders.
LoaderWhole ==
    /\ cmd \in CliCmds
    /\ pc = "loader"
    /\ ~call.perform_split
    /\ LET loader == get_data_loader(ds, 1..ds.len, args.batch_size)
       IN  IF call.which = "train"
           THEN /\ train_loader' = loader
                /\ val_loader' = val_loader
                /\ pc' = "val_call"
           ELSE /\ val_loader' = loader
                /\ train_loader' = train_loader
                /\ pc' = "_determine_channels"
    /\ UNCHANGED <<mitoVars, netVars, logVars, cmd, args, exc, call, label_transform, patch_checked, ds, n_datasets, model, loss>>

\* _get_loaders, lines 147-150: the arguments of the second call are evaluated
\* (args.validation_key among them) and _get_loader is entered again.
ValidationCall ==
    /\ cmd \in CliCmds
    /\ pc = "val_call"
    /\ IF HasAttr(args, "validation_key")
       THEN /\ call' = ValCall(args)
            /\ exc' = exc
            /\ pc' = "label_mode"
       ELSE /\ call' = call
            /\ exc' = Raise("AttributeError", 148, "validation_key")
            /\ pc' = "raised"
    /\ UNCHANGED <<mitoVars, netVars, logVars, cmd, args, label_transform, patch_checked, ds, n_datasets, train_loader,
                   val_loader, model, loss>>

\* train_2d_unet lines 168-169, train_3d_unet lines 199-203 (with line 194).
DetermineChannels ==
    /\ cmd \in CliCmds
    /\ pc = "_determine_channels"
    /\ model' = IF cmd = "train_2d_unet" THEN "UNet2d"
                ELSE IF args.scale_factors = None THEN "UNet3d" ELSE "AnisotropicUNet"
    /\ pc' = "loss"
    /\ UNCHANGED <<mitoVars, netVars, logVars, cmd, args, exc, call, label_transform, patch_checked, ds, n_datasets,
                   train_loader, val_loader, loss>>

\* train_2d_unet lines 171-177, train_3d_unet lines 205-211. "affinities" in None
\* raises TypeError; for a string it is the substring test.
SelectLoss ==
    /\ cmd \in CliCmds
    /\ pc = "loss"
    /\ IF args.label_mode = None
       THEN /\ exc' = Raise("TypeError", IF cmd = "train_2d_unet" THEN 171 ELSE 205, "label_mode")
            /\ loss' = loss
            /\ pc' = "raised"
       ELSE /\ loss' = IF args.label_mode \in AffinityModes
                       THEN "LossWrapper(DiceLoss, ApplyAndRemoveMask)"
                       ELSE "DiceLoss"
            /\ exc' = exc
            /\ pc' = "fit"
    /\ UNCHANGED <<mitoVars, netVars, logVars, cmd, args, call, label_transform, patch_checked, ds, n_datasets,
                   train_loader, val_loader, model>>

\* train_2d_unet lines 180-186, train_3d_unet lines 214-220.
Fit ==
    /\ cmd \in CliCmds
    /\ pc = "fit"
    /\ pc' = "done"
    /\ UNCHANGED <<mitoVars, netVars, logVars, cmd, args, exc, cliVars>>


----------------------------------------------------------------------------
\* experiments/shallow2deep/em-mitochondria/train_mito_3d.py

\* The variables of the training commands while another program runs.
IdleCli ==
    /\ call = NoCall
    /\ label_transform = NoTransform
    /\ patch_checked = 0
    /\ ds = NoDataset
    /\ n_datasets = 0
    /\ train_loader = NoLoader
    /\ val_loader = NoLoader
    /\ model = None
    /\ loss = None

DATASETS == <<"lucchi", "platy", "urocell">>

\* The dataset names tried, in the order Python compares strings.
NameOrder == <<"kasthuri", "lucchi", "platy", "urocell">>

Rank(n) == CHOOSE i \in DOMAIN NameOrder : NameOrder[i] = n

SeqsUpTo(S, n) == UNION {[1..k -> S] : k \in 1..n}

EmptyMap == [d \in {} |-> <<>>]

MapPut(m, k, v) == [d \in DOMAIN m \cup {k} |-> IF d = k THEN v ELSE m[d]]

\* sorted(s) for a list of dataset names (insertion into the sorted prefix).
RECURSIVE sorted(_)
sorted(s) ==
    IF s = <<>> THEN <<>>
    ELSE LET rest == sorted(Tail(s))
             k == Cardinality({i \in DOMAIN rest : Rank(rest[i]) <= Rank(Head(s))})
         IN  SubSeq(rest, 1, k) \o <<Head(s)>> \o SubSeq(rest, k + 1, Len(rest))

\* normalize_datasets without line 22: the names in the order given.
normalize_datasets_unsorted(ds_names) ==
    IF Range(ds_names) \ Range(DATASETS) # {}
    THEN [exc |-> Raise("ValueError", 21, "datasets"), datasets |-> <<>>]
    ELSE [exc |-> NoExc, datasets |-> ds_names]

\* normalize_datasets, lines 18-23.
normalize_datasets(ds_names) ==
    IF Range(ds_names) \ Range(DATASETS) # {}
    THEN [exc |-> Raise("ValueError", 21, "datasets"), datasets |-> <<>>]
    ELSE [exc |-> NoExc, datasets |-> sorted(ds_names)]

\* Line 148: the name f"s2d-em-mitos-{'_'.join(datasets)}-3d-{sampling_strategy}", by its parts.
TrainingName(ds_names, sampling_strategy) == <<"s2d-em-mitos", ds_names, "3d", sampling_strategy>>

\* A file below DATA_ROOT: its folder (the path components below DATA_ROOT), its name
\* as <stem>_<split><idx>.<ext>, and whether it holds the key labels/mito.
File(dir, stem, split, idx, ext, mito) ==
    [dir |-> dir, stem |-> stem, split |-> split, idx |-> idx, ext |-> ext, mito |-> mito]

\* glob of <dir>/*.<ext>, or of <dir>/*_<split>.<ext> when split is given.
glob(fs, dir, split, ext) ==
    {f \in fs : f.dir = dir /\ f.ext = ext /\ (split = "*" \/ f.split = split)}

\* paths.sort(): the files of one folder in the order of their names.
RECURSIVE SortPaths(_)
SortPaths(S) ==
    IF S = {} THEN <<>>
    ELSE LET m == CHOOSE f \in S : \A g \in S : f.idx <= g.idx
         IN  <<m>> \o SortPaths(S \ {m})

\* Line 49 and lines 127, 132: DATA_ROOT/rfs3d-<sampling_strategy>/<dataset>.
RfFolder(sampling_strategy, dataset) == <<"rfs3d", sampling_strategy, dataset>>

\* Line 30-34: what _require_lucchi_data leaves in DATA_ROOT/lucchi.
LucchiData == {File(<<"lucchi">>, "lucchi", "train", 1, "h5", FALSE),
               File(<<"lucchi">>, "lucchi", "test", 2, "h5", FALSE)}

\* Line 39-42: what _require_urocell_data leaves in DATA_ROOT/urocell: volumes, not
\* all of which hold labels/mito.
UrocellData == {File(<<"urocell">>, "fib1", "", 1, "h5", TRUE),
                File(<<"urocell">>, "fib1", "", 2, "h5", FALSE),
                File(<<"urocell">>, "fib1", "", 3, "h5", TRUE),
                File(<<"urocell">>, "fib1", "", 4, "h5", TRUE)}

\* DATA_ROOT/kasthuri as another experiment of the folder leaves it.
KasthuriData == {File(<<"kasthuri">>, "kasthuri", "train", 1, "h5", FALSE),
                 File(<<"kasthuri">>, "kasthuri", "test", 2, "h5", FALSE)}

HasMito(f) == f.mito

\* require_ds, lines 26-45.
require_ds(dataset, fs) ==
    IF dataset = "lucchi"
    THEN [exc |-> NoExc, files |-> fs \cup LucchiData,
          paths |-> SortPaths(glob(fs \cup LucchiData, <<"lucchi">>, "train", "h5")),
          raw_key |-> "raw", label_key |-> "labels"]
    ELSE IF dataset = "platy"
    THEN [exc |-> Raise("NotImplementedError", 37, dataset), files |-> fs,
          paths |-> <<>>, raw_key |-> None, label_key |-> None]
    ELSE IF dataset = "urocell"
    THEN LET fs2 == fs \cup UrocellData
             with_mito == SelectSeq(SortPaths(glob(fs2, <<"urocell">>, "*", "h5")), HasMito)
         IN  [exc |-> NoExc, files |-> fs2,
              paths |-> SubSeq(with_mito, 1, Len(with_mito) - 1),
              raw_key |-> "raw", label_key |-> "labels/mito"]
    ELSE [exc |-> Raise("UnboundLocalError", 45, "paths"), files |-> fs,
          paths |-> <<>>, raw_key |-> None, label_key |-> None]

\* Lines 62-83: prepare_shallow2deep(_advanced) writes n_forests forests to output_folder.
prepare_shallow2deep(fs, output_folder, n_forests) ==
    fs \cup {File(output_folder, "rf", "", i, "pkl", FALSE) : i \in 1..n_forests}

\* require_rfs_ds, lines 48-83 (n_forests is the global args.n_rfs).
require_rfs_ds(dataset, n_rfs, sampling_strategy, a, fs) ==
    LET out_folder == RfFolder(sampling_strategy, dataset)
        r == require_ds(dataset, fs)
    IN  IF Cardinality(glob(fs, out_folder, "*", "pkl")) = n_rfs
        THEN [exc |-> NoExc, files |-> fs, out_folder |-> out_folder, called_require_ds |-> FALSE]
        ELSE IF r.exc # NoExc
        THEN [exc |-> r.exc, files |-> r.files, out_folder |-> out_folder, called_require_ds |-> TRUE]
        ELSE [exc |-> NoExc, files |-> prepare_shallow2deep(r.files, out_folder, a.n_rfs),
              out_folder |-> out_folder, called_require_ds |-> TRUE]

\* path_selection of get_loader applied to paths (line 101-102): None, [:-1] or [-1:].
SelectPaths(paths, path_selection) ==
    IF path_selection = None THEN paths
    ELSE IF path_selection = "[:-1]" THEN SubSeq(paths, 1, Len(paths) - 1)
    ELSE SubSeq(paths, Len(paths), Len(paths))

\* get_ds, lines 91-116: file_pattern is <file_dir>/*_<file_split>.h5 (or *.h5),
\* rf_pattern is <rf_dir>/*.pkl.
get_ds(fs, file_dir, file_split, rf_dir, n_samples, label_key, path_selection, check_labels) ==
    LET globbed == SortPaths(glob(fs, file_dir, file_split, "h5"))
        checked == IF check_labels THEN SelectSeq(globbed, HasMito) ELSE globbed
        paths == SelectPaths(checked, path_selection)
        rf_paths == SortPaths(glob(fs, rf_dir, "*", "pkl"))
    IN  IF Len(paths) = 0
        THEN [exc |-> Raise("AssertionError", 103, "paths"), paths |-> paths, rf_paths |-> <<>>,
              label_key |-> label_key, n_samples |-> n_samples]
        ELSE IF Len(rf_paths) = 0
        THEN [exc |-> Raise("AssertionError", 107, "rf_paths"), paths |-> paths, rf_paths |-> rf_paths,
              label_key |-> label_key, n_samples |-> n_samples]
        ELSE [exc |-> NoExc, paths |-> paths, rf_paths |-> rf_paths,
              label_key |-> label_key, n_samples |-> n_samples]

\* Lines 122-128: ds_name = "kasthuri" for the selected dataset lucchi.
GetDsLucchi(a, split, fs) ==
    get_ds(fs, <<"kasthuri">>, IF split = "val" THEN "test" ELSE split,
           RfFolder(a.sampling_strategy, "kasthuri"),
           IF split = "train" THEN 500 ELSE 25, "labels", None, FALSE)

\* Lines 129-137.
GetDsUrocell(a, split, fs) ==
    get_ds(fs, <<"urocell">>, "*", RfFolder(a.sampling_strategy, "urocell"),
           IF split = "train" THEN 500 ELSE 25, "labels/mito",
           IF split = "train" THEN "[:-1]" ELSE "[-1:]", TRUE)

\* get_loader, lines 119-143: the exception or the loader, and the folder of the
\* rf_pattern it computed for each selected dataset it came to.
get_loader(a, split, dataset_names, fs) ==
    LET has_l == "lucchi" \in Range(dataset_names)
        has_u == "urocell" \in Range(dataset_names)
        l == GetDsLucchi(a, split, fs)
        u == GetDsUrocell(a, split, fs)
        pat_l == [d \in {"lucchi"} |-> RfFolder(a.sampling_strategy, "kasthuri")]
        pat_lu == [d \in {"lucchi", "urocell"} |->
                      RfFolder(a.sampling_strategy, IF d = "lucchi" THEN "kasthuri" ELSE "urocell")]
        pat_u == [d \in {"urocell"} |-> RfFolder(a.sampling_strategy, "urocell")]
    IN  IF has_l /\ l.exc # NoExc
        THEN [exc |-> l.exc, rf_patterns |-> pat_l, loader |-> <<>>]
        ELSE IF has_u /\ u.exc # NoExc
        THEN [exc |-> u.exc, rf_patterns |-> IF has_l THEN pat_lu ELSE pat_u, loader |-> <<>>]
        ELSE IF ~has_l /\ ~has_u
        THEN [exc |-> Raise("IndexError", 138, "datasets"), rf_patterns |-> EmptyMap, loader |-> <<>>]
        ELSE [exc |-> NoExc,
              rf_patterns |-> IF has_l /\ has_u THEN pat_lu ELSE IF has_l THEN pat_l ELSE pat_u,
              loader |-> (IF has_l THEN <<l>> ELSE <<>>) \o (IF has_u THEN <<u>> ELSE <<>>)]

\* Values of --datasets, --n_rfs and --sampling_strategy tried (line 183-188); the
\* run is the training run (args.check is not set).
MitoNamespaces ==
    [datasets : SeqsUpTo(Range(NameOrder), MaxDatasets),
     n_rfs : 1..MaxRfs,
     n_threads : {32},
     sampling_strategy : {"vanilla", "worst_tiles"},
     batch_size : {1},
     check : {FALSE}]

\* DATA_ROOT as the run finds it: empty, or with the data of kasthuri, or with the
\* data and one forest of kasthuri from a run of another experiment.
InitialFiles(a) ==
    {{}, KasthuriData,
     KasthuriData \cup {File(RfFolder(a.sampling_strategy, "kasthuri"), "rf", "", 1, "pkl", FALSE)}}

InitMito ==
    /\ cmd = "train_mito_3d"
    /\ args \in MitoNamespaces
    /\ pc = "normalize"
    /\ exc = NoExc
    /\ IdleCli
    /\ datasets = <<>>
    /\ name = <<>>
    /\ files \in InitialFiles(args)
    /\ rf_i = 1
    /\ out_folders = EmptyMap
    /\ prepared = EmptyMap
    /\ rf_patterns = EmptyMap
    /\ loaders = EmptyMap
    /\ IdleNet
    /\ IdleLog

\* train_shallow2deep, lines 147-148.
Normalize ==
    /\ cmd = "train_mito_3d"
    /\ pc = "normalize"
    /\ LET r == normalize_datasets(args.datasets)
       IN  IF r.exc # NoExc
           THEN /\ exc' = r.exc
                /\ pc' = "raised"
                /\ UNCHANGED <<datasets, name>>
           ELSE /\ datasets' = r.datasets
                /\ name' = TrainingName(r.datasets, args.sampling_strategy)
                /\ exc' = exc
                /\ pc' = "require_rfs"
    /\ UNCHANGED <<netVars, logVars, cmd, args, cliVars, files, rf_i, out_folders, prepared, rf_patterns, loaders>>

\* One round of the loop of require_rfs (lines 86-88): require_rfs_ds for datasets[rf_i].
RequireRfsDs ==
    /\ cmd = "train_mito_3d"
    /\ pc = "require_rfs"
    /\ rf_i <= Len(datasets)
    /\ LET dataset == datasets[rf_i]
           r == require_rfs_ds(dataset, args.n_rfs, args.sampling_strategy, args, files)
           d == require_ds(dataset, files)
       IN  /\ files' = r.files
           /\ out_folders' = MapPut(out_folders, dataset, r.out_folder)
           /\ prepared' = IF r.called_require_ds /\ r.exc = NoExc
                          THEN MapPut(prepared, dataset,
                                      [paths |-> d.paths, raw_key |-> d.raw_key, label_key |-> d.label_key])
                          ELSE prepared
           /\ exc' = r.exc
           /\ pc' = IF r.exc # NoExc THEN "raised"
                    ELSE IF rf_i = Len(datasets) THEN "get_loader_train" ELSE pc
           /\ rf_i' = IF r.exc # NoExc THEN rf_i ELSE rf_i + 1
    /\ UNCHANGED <<netVars, logVars, cmd, args, cliVars, datasets, name, rf_patterns, loaders>>

\* train_shallow2deep, lines 154 and 155: get_loader for the split.
GetLoader(split) ==
    /\ cmd = "train_mito_3d"
    /\ pc = IF split = "train" THEN "get_loader_train" ELSE "get_loader_val"
    /\ LET r == get_loader(args, split, datasets, files)
       IN  /\ rf_patterns' = r.rf_patterns
           /\ exc' = r.exc
           /\ IF r.exc # NoExc
              THEN /\ pc' = "raised"
                   /\ loaders' = loaders
              ELSE /\ pc' = IF split = "train" THEN "get_loader_val" ELSE "s2d_fit"
                   /\ loaders' = MapPut(loaders, split, r.loader)
    /\ UNCHANGED <<netVars, logVars, cmd, args, cliVars, datasets, name, files, rf_i, out_folders, prepared>>

GetTrainLoader == GetLoader("train")

GetValLoader == GetLoader("val")

\* train_shallow2deep, lines 156-166.
TrainShallow2Deep ==
    /\ cmd = "train_mito_3d"
    /\ pc = "s2d_fit"
    /\ loss' = IF "kasthuri" \in Range(datasets) THEN "LossWrapper(DiceLoss, MaskIgnoreLabel)"
               ELSE "DiceLoss"
    /\ pc' = "done"
    /\ UNCHANGED <<cmd, args, exc, call, label_transform, patch_checked, ds, n_datasets,
                   train_loader, val_loader, model, mitoVars, netVars, logVars>>


----------------------------------------------------------------------------
\* torch_em/model/unetr.py: UNETR.__init__ and UNETR.forward, on shapes. A tensor is
\* the record of its channels, height and width (the batch axis is left out).

Shape(c, h, w) == [c |-> c, h |-> h, w |-> w]

Min(a, b) == IF a < b THEN a ELSE b

Max(a, b) == IF a < b THEN b ELSE a

\* The encoders a UNETR is constructed with: a model name, from which
\* get_vision_transformer builds the ViT of the backbone (lines 88-90), or a module
\* (line 98-99), here a ViT_Sam or a module of neither ViT class. The encoder works on
\* 3-channel images of side img_size = 16 * grid and returns features of side grid.
Encoders ==
    {[given_as |-> e[1], class |-> e[2], img_size |-> 16 * g, grid |-> g, in_chans |-> 3] :
        e \in {<<"str", "ViT_Sam">>, <<"str", "ViT_MAE">>,
               <<"module", "ViT_Sam">>, <<"module", "Module">>},
        g \in 1..MaxGrid}

\* UNETR.__init__, lines 67-154: the attributes forward reads.
UNETR(encoder, out_channels, use_sam_stats, use_mae_stats, resize_input, use_skip_connection) ==
    [encoder |-> encoder,
     use_sam_stats |-> use_sam_stats, use_mae_stats |-> use_mae_stats,
     use_skip_connection |-> use_skip_connection,
     resize_input |-> resize_input, out_channels |-> out_channels,
     embed_dim |-> 256]

\* ResizeLongestSide.get_preprocess_shape of the transform of line 117, used by
\* apply_image_torch (line 183): the sides scaled so that the longer one is
\* long_side, each rounded with int(. + 0.5).
get_preprocess_shape(oldh, oldw, long_side) ==
    LET m == Max(oldh, oldw)
    IN  <<(2 * oldh * long_side + m) \div (2 * m), (2 * oldw * long_side + m) \div (2 * m)>>

\* UNETR.preprocess, lines 168-191. The mean and std have 3 channels, so the input
\* must have 1 or 3; F.pad with a negative pad crops.
preprocess(n, t) ==
    LET size == IF n.resize_input
                THEN get_preprocess_shape(t.h, t.w, n.encoder.img_size)
                ELSE <<t.h, t.w>>
        padh == n.encoder.img_size - size[1]
        padw == n.encoder.img_size - size[2]
    IN  IF ~n.use_sam_stats /\ n.use_mae_stats
        THEN [exc |-> Raise("NotImplementedError", 176, "use_mae_stats"), x |-> t, input_shape |-> <<0, 0>>]
        ELSE IF size[1] = 0 \/ size[2] = 0
        THEN [exc |-> Raise("RuntimeError", 183, "size"), x |-> t, input_shape |-> <<0, 0>>]
        ELSE IF t.c \notin {1, 3}
        THEN [exc |-> Raise("RuntimeError", 186, "channels"), x |-> t, input_shape |-> size]
        ELSE [exc |-> NoExc, x |-> Shape(3, size[1] + padh, size[2] + padw), input_shape |-> size]

\* postprocess_masks without line 206: the masks cropped to input_size.
postprocess_masks_cropped(n, masks, input_size, original_size) ==
    Shape(masks.c, Min(n.encoder.img_size, input_size[1]), Min(n.encoder.img_size, input_size[2]))

\* UNETR.postprocess_masks, lines 193-207: interpolate to the encoder's img_size, crop
\* to input_size, interpolate to original_size.
postprocess_masks(n, masks, input_size, original_size) ==
    LET m1 == Shape(masks.c, n.encoder.img_size, n.encoder.img_size)
        m2 == Shape(m1.c, Min(m1.h, input_size[1]), Min(m1.w, input_size[2]))
    IN  Shape(m2.c, original_size[1], original_size[2])

\* The inputs of forward tried: 1 to 3 channels, sides around the encoder's img_size.
InputShapes(n) ==
    {Shape(c, h, w) : c \in 1..3,
                      h \in (n.encoder.img_size - MaxDelta)..(n.encoder.img_size + MaxDelta),
                      w \in (n.encoder.img_size - MaxDelta)..(n.encoder.img_size + MaxDelta)}

\* A constructed UNETR and the x given to forward; line 210.
InitNet ==
    /\ cmd = "UNETR.forward"
    /\ args = <<>>
    /\ pc = "preprocess"
    /\ exc = NoExc
    /\ IdleCli
    /\ IdleMito
    /\ IdleLog
    /\ net \in {UNETR(e, o, ss, ms, ri, sk) : e \in Encoders, o \in 1..MaxOutChannels,
                   ss \in BOOLEAN, ms \in BOOLEAN, ri \in BOOLEAN, sk \in BOOLEAN}
    /\ x \in InputShapes(net)
    /\ original_shape = <<x.h, x.w>>
    /\ input_shape = <<0, 0>>
    /\ z12 = NoShape
    /\ from_encoder = "unbound"
    /\ skips = <<>>

\* forward, line 214.
Preprocess ==
    /\ cmd = "UNETR.forward"
    /\ pc = "preprocess"
    /\ LET r == preprocess(net, x)
       IN  /\ x' = r.x
           /\ input_shape' = r.input_shape
           /\ exc' = r.exc
           /\ pc' = IF r.exc = NoExc THEN "encoder" ELSE "raised"
    /\ UNCHANGED <<cmd, args, cliVars, mitoVars, logVars, net, original_shape, z12, from_encoder, skips>>

\* forward, lines 218-223: only the outputs of a ViT_Sam or ViT_MAE are unpacked into
\* z12 and from_encoder.
Encoder ==
    /\ cmd = "UNETR.forward"
    /\ pc = "encoder"
    /\ z12' = Shape(net.embed_dim, net.encoder.grid, net.encoder.grid)
    /\ from_encoder' = IF net.encoder.class \in {"ViT_Sam", "ViT_MAE"} THEN "bound" ELSE from_encoder
    /\ pc' = "features"
    /\ UNCHANGED <<cmd, args, exc, cliVars, mitoVars, logVars, net, x, original_shape, input_shape, skips>>

\* forward, lines 225-245: the sides of z9, z6, z3 and z0. Each Deconv2DBlock doubles
\* the side (lines 267-273, 299-310); z_inputs keeps the side of x.
Features ==
    /\ cmd = "UNETR.forward"
    /\ pc = "features"
    /\ IF net.use_skip_connection
       THEN IF from_encoder = "unbound"
            THEN /\ exc' = Raise("UnboundLocalError", 227, "from_encoder")
                 /\ pc' = "raised"
                 /\ skips' = skips
            ELSE /\ skips' = <<2 * z12.h, 2 * (2 * z12.h), 2 * (2 * (2 * z12.h)), x.h>>
                 /\ exc' = exc
                 /\ pc' = "decoder"
       ELSE /\ skips' = <<2 * z12.h, 2 * (2 * z12.h), 2 * (2 * (2 * z12.h)),
                          2 * (2 * (2 * (2 * z12.h)))>>
            /\ exc' = exc
            /\ pc' = "decoder"
    /\ UNCHANGED <<cmd, args, cliVars, mitoVars, logVars, net, x, original_shape, input_shape, z12, from_encoder>>

\* forward, lines 247-256: base, the decoder (three upsamplings by 2, lines 122-135),
\* deconv_out, the concatenation with z0 (which needs equal sides), decoder_head,
\* out_conv and the activation.
Decoder ==
    /\ cmd = "UNETR.forward"
    /\ pc = "decoder"
    /\ LET side == 2 * (2 * (2 * (2 * z12.h)))
       IN  IF skips[4] # side
           THEN /\ exc' = Raise("RuntimeError", 251, "cat")
                /\ pc' = "raised"
                /\ x' = x
           ELSE /\ x' = Shape(net.out_channels, side, side)
                /\ exc' = exc
                /\ pc' = "postprocess"
    /\ UNCHANGED <<cmd, args, cliVars, mitoVars, logVars, net, original_shape, input_shape, z12, from_encoder, skips>>

\* forward, lines 258-259.
Postprocess ==
    /\ cmd = "UNETR.forward"
    /\ pc = "postprocess"
    /\ x' = postprocess_masks(net, x, input_shape, original_shape)
    /\ pc' = "done"
    /\ UNCHANGED <<cmd, args, exc, cliVars, mitoVars, logVars, net, original_shape, input_shape, z12, from_encoder, skips>>

----------------------------------------------------------------------------
\* torch_em/self_training/logger.py: SelfTrainingTensorboardLogger. The tensors
\* given to the methods are kept by name only; a write to self.tb is a record of
\* the SummaryWriter method called (kind), its tag, its global_step, the argument
\* given as scalar_value and the images of the grid given as img_tensor.

LoggerCmd == "SelfTrainingTensorboardLogger"

\* The values of step the trainer calls the logger with.
StepInputs == 0..MaxStep

\* The values of trainer.log_image_interval tried.
IntervalInputs == 1..MaxInterval

\* The values of save_root tried.
SaveRootInputs == {None, "checkpoints"}

\* The trainers a logger is constructed for.
Trainers == [name : {"mean-teacher"}, log_image_interval : IntervalInputs]

\* __init__: log_dir and log_image_interval.
SelfTrainingTensorboardLogger(trainer, save_root) ==
    [log_dir |-> IF save_root = None
                 THEN "./logs/" \o trainer.name
                 ELSE save_root \o "/logs/" \o trainer.name,
     log_image_interval |-> trainer.log_image_interval]

add_scalar(t, tag, scalar_value, global_step) ==
    Append(t, [kind |-> "scalar", tag |-> tag, global_step |-> global_step,
               scalar_value |-> scalar_value, images |-> <<>>])

add_image(t, tag, images, global_step) ==
    Append(t, [kind |-> "image", tag |-> tag, global_step |-> global_step,
               scalar_value |-> None, images |-> images])

_add_supervised_images(t, step, nm) ==
    add_image(t, nm \o "/supervised/input-labels-prediction", <<"x", "y", "pred">>, step)

\* im_name is computed before "-labelfilter" is appended to the local name, so the
\* tag is the same with and without a label filter.
_add_unsupervised_images(t, step, nm, label_filter) ==
    LET images == <<"x1", "x2", "pred", "pseudo_labels">>
        im_name == nm \o "/unsupervised/aug1-aug2-prediction-pseudolabels"
    IN  add_image(t, im_name,
                  IF label_filter # None THEN Append(images, "label_filter") ELSE images,
                  step)

log_combined_loss(t, step) ==
    add_scalar(t, "train/combined_loss", "loss", step)

log_lr(t, step) ==
    add_scalar(t, "train/learning_rate", "lr", step)

\* log_train_supervised writing the images at every call.
log_train_supervised_every_call(self, t, step) ==
    _add_supervised_images(add_scalar(t, "train/supervised/loss", "loss", step),
                           step, "validation")

\* The training methods pass the name "validation" to the image helpers.
log_train_supervised(self, t, step) ==
    LET t1 == add_scalar(t, "train/supervised/loss", "loss", step)
    IN  IF step % self.log_image_interval = 0
        THEN _add_supervised_images(t1, step, "validation")
        ELSE t1

log_validation_supervised(t, step) ==
    LET t1 == add_scalar(t, "validation/supervised/loss", "loss", step)
        t2 == add_scalar(t1, "validation/supervised/metric", "metric", step)
    IN  _add_supervised_images(t2, step, "validation")

log_train_unsupervised(self, t, step, label_filter) ==
    LET t1 == add_scalar(t, "train/unsupervised/loss", "loss", step)
    IN  IF step % self.log_image_interval = 0
        THEN _add_unsupervised_images(t1, step, "validation", label_filter)
        ELSE t1

log_validation_unsupervised(t, step, label_filter) ==
    LET t1 == add_scalar(t, "validation/unsupervised/loss", "loss", step)
        t2 == add_scalar(t1, "validation/unsupervised/metric", "metric", step)
    IN  _add_unsupervised_images(t2, step, "validation", label_filter)

log_validation(t, step, gt_metric) ==
    LET t1 == add_scalar(t, "validation/loss", "loss", step)
        t2 == add_scalar(t1, "validation/metric", "metric", step)
    IN  IF gt_metric # None
        THEN add_scalar(t2, "validation/gt_metric", gt_metric, step)
        ELSE t2

\* A constructed logger that was not called yet.
InitLog ==
    /\ cmd = LoggerCmd
    /\ args = <<>>
    /\ pc = "logging"
    /\ exc = NoExc
    /\ IdleCli
    /\ IdleMito
    /\ IdleNet
    /\ logger \in {SelfTrainingTensorboardLogger(tr, sr) : tr \in Trainers, sr \in SaveRootInputs}
    /\ tb = <<>>
    /\ calls = <<>>

\* The trainer calls method m of the logger with step s: the writes become t.
Called(m, s, t) ==
    /\ cmd = LoggerCmd
    /\ pc = "logging"
    /\ Len(calls) < MaxCalls
    /\ calls' = Append(calls, [method |-> m, step |-> s])
    /\ tb' = t
    /\ UNCHANGED <<cmd, args, pc, exc, cliVars, mitoVars, netVars, logger>>

LogCombinedLoss ==
    \E s \in StepInputs : Called("log_combined_loss", s, log_combined_loss(tb, s))

LogLr ==
    \E s \in StepInputs : Called("log_lr", s, log_lr(tb, s))

LogTrainSupervised ==
    \E s \in StepInputs :
        Called("log_train_supervised", s, log_train_supervised(logger, tb, s))

LogValidationSupervised ==
    \E s \in StepInputs :
        Called("log_validation_supervised", s, log_validation_supervised(tb, s))

LogTrainUnsupervised ==
    \E s \in StepInputs, label_filter \in {None, "label_filter"} :
        Called("log_train_unsupervised", s, log_train_unsupervised(logger, tb, s, label_filter))

LogValidationUnsupervised ==
    \E s \in StepInputs, label_filter \in {None, "label_filter"} :
        Called("log_validation_unsupervised", s, log_validation_unsupervised(tb, s, label_filter))

LogValidation ==
    \E s \in StepInputs, gt_metric \in {None, "gt_metric"} :
        Called("log_validation", s, log_validation(tb, s, gt_metric))

----------------------------------------------------------------------------
Init == InitCli \/ InitMito \/ InitNet \/ InitLog

Next ==
    \/ GetLoaders
    \/ LabelMode
    \/ PatchShape
    \/ CreateDataset
    \/ LoaderSplit
    \/ LoaderWhole
    \/ ValidationCall
    \/ DetermineChannels
    \/ SelectLoss
    \/ Fit
    \/ Normalize
    \/ RequireRfsDs
    \/ GetTrainLoader
    \/ GetValLoader
    \/ TrainShallow2Deep
    \/ Preprocess
    \/ Encoder
    \/ Features
    \/ Decoder
    \/ Postprocess
    \/ LogCombinedLoss
    \/ LogLr
    \/ LogTrainSupervised
    \/ LogValidationSupervised
    \/ LogTrainUnsupervised
    \/ LogValidationUnsupervised
    \/ LogValidation

Spec == Init /\ [][Next]_vars

----------------------------------------------------------------------------
\* Properties of the training commands.

\* _get_loaders has returned (the command is past line 165 / 195).
LoadersReturned == pc \in {"_determine_channels", "loss", "fit", "done"}

\* The label mode chain of the running _get_loader call has run.
LabelModeRan == pc \notin {"_get_loaders", "label_mode"}

\* C1: with validation inputs and labels given, _get_loaders does not raise: once the
\* training loader is built (from the whole, unsplit training dataset with the training
\* keys), no exception is raised in _get_loaders itself, and when it returns the
\* validation loader is built from the validation inputs and labels with
\* validation_input_key and validation_label_key.
C1_ValidationLoaders ==
    (cmd \in CliCmds /\ args.validation_inputs # <<>> /\ train_loader.built) =>
        /\ train_loader.dataset.input_paths = args.training_inputs
        /\ train_loader.dataset.label_paths = args.training_labels
        /\ train_loader.dataset.input_key = args.training_input_key
        /\ train_loader.dataset.label_key = args.training_label_key
        /\ train_loader.indices = 1..train_loader.dataset.len
        /\ ~(pc = "raised" /\ exc.line \in 133..151)
        /\ LoadersReturned =>
              /\ val_loader.built
              /\ val_loader.dataset.input_paths = args.validation_inputs
              /\ val_loader.dataset.label_paths = args.validation_labels
              /\ val_loader.dataset.input_key = args.validation_input_key
              /\ val_loader.dataset.label_key = args.validation_label_key
              /\ val_loader.indices = 1..val_loader.dataset.len

\* C2: without validation inputs, one dataset is built from the training inputs and
\* split: the training loader draws only from the first part and the validation loader
\* only from the second, the parts are disjoint and together are the whole dataset, and
\* the first part holds the fraction train_fraction of it (to within one sample, the
\* second part the rest).
C2_SplitPartition ==
    (cmd \in CliCmds /\ args.validation_inputs = <<>> /\ train_loader.built) =>
        /\ val_loader.built
        /\ n_datasets = 1
        /\ train_loader.dataset = ds
        /\ val_loader.dataset = ds
        /\ ds.input_paths = args.training_inputs
        /\ ds.label_paths = args.training_labels
        /\ ds.input_key = args.training_input_key
        /\ ds.label_key = args.training_label_key
        /\ train_loader.indices \cap val_loader.indices = {}
        /\ train_loader.indices \cup val_loader.indices = 1..ds.len
        /\ Cardinality(train_loader.indices) >= (ds.len * args.train_fraction) \div 10
        /\ Cardinality(train_loader.indices) <= ((ds.len * args.train_fraction) \div 10) + 1

\* A split happened and both parts hold samples, the first more than one.
C2_Witness ==
    /\ cmd \in CliCmds
    /\ args.validation_inputs = <<>>
    /\ LoadersReturned
    /\ Cardinality(train_loader.indices) >= 2
    /\ Cardinality(val_loader.indices) >= 1
    /\ Cardinality(val_loader.indices) < ds.len - ((ds.len * args.train_fraction) \div 10)

\* C3: a label mode that is not None and not one of the handled modes makes
\* _get_loader raise a ValueError naming that mode, before the patch shape is checked
\* and before any dataset is created.
C3_UnknownModeValueError ==
    (cmd \in CliCmds /\ args.label_mode \notin HandledModes \cup {None} /\ LabelModeRan) =>
        /\ pc = "raised"
        /\ exc.type = "ValueError"
        /\ exc.about = args.label_mode
        /\ patch_checked = 0
        /\ n_datasets = 0

\* C4: without -m/--label_mode no label transform is applied and, once both loaders
\* are built, the command selects the plain Dice loss and reaches trainer.fit without
\* raising.
C4_LabelModeOptional ==
    (cmd \in CliCmds /\ args.label_mode = None) =>
        /\ LabelModeRan => label_transform = NoTransform
        /\ (train_loader.built /\ val_loader.built) =>
              /\ pc # "raised"
              /\ pc \in {"fit", "done"} => loss = "DiceLoss"

\* An offset with exactly ndim entries, exactly one of them non-zero, and that one negative.
OffsetWellFormed(o, ndim) ==
    /\ Len(o) = ndim
    /\ Cardinality({i \in DOMAIN o : o[i] # 0}) = 1
    /\ \A i \in DOMAIN o : o[i] <= 0

\* C5: for both commands and both affinity label modes the label transform is an
\* affinity transform over the offsets of _get_offsets for the command's ndim: 8
\* offsets for 2D, 12 for 3D, each with ndim entries of which exactly one is non-zero
\* and negative.
C5_AffinityOffsets ==
    (cmd \in CliCmds /\ args.label_mode \in AffinityModes /\ LabelModeRan) =>
        /\ label_transform.kind = "AffinityTransform"
        /\ Len(label_transform.offsets) = (IF Ndim = 2 THEN 8 ELSE 12)
        /\ \A i \in DOMAIN label_transform.offsets :
              OffsetWellFormed(label_transform.offsets[i], Ndim)
        /\ label_transform.add_binary_target = (args.label_mode = "affinities_and_foreground")

----------------------------------------------------------------------------
\* Properties of train_mito_3d.py.

\* The list s taken in the order of the permutation p of its positions.
Permuted(s, p) == [i \in DOMAIN s |-> s[p[i]]]

IsSorted(s) == \A i \in 1..(Len(s) - 1) : Rank(s[i]) <= Rank(s[i + 1])

\* How often the name n occurs in the list s.
Count(s, n) == Cardinality({i \in DOMAIN s : s[i] = n})

\* C6: normalize_datasets raises ValueError when a given name is outside {lucchi,
\* platy, urocell}; otherwise it returns the given names (each as often as given) in
\* sorted order, returns the same for every ordering of the given names, and returns
\* an already normalized list unchanged; the name train_shallow2deep builds from its
\* result is the same for every ordering of the given names.
C6_NormalizeDatasets ==
    (cmd = "train_mito_3d" /\ pc # "normalize") =>
        IF Range(args.datasets) \subseteq Range(DATASETS)
        THEN /\ ~(pc = "raised" /\ exc.line = 21)
             /\ IsSorted(datasets)
             /\ \A n \in Range(NameOrder) : Count(datasets, n) = Count(args.datasets, n)
             /\ normalize_datasets(datasets).exc = NoExc
             /\ normalize_datasets(datasets).datasets = datasets
             /\ \A p \in Permutations1(Len(args.datasets)) :
                   /\ normalize_datasets(Permuted(args.datasets, p)).datasets = datasets
                   /\ TrainingName(normalize_datasets(Permuted(args.datasets, p)).datasets,
                                   args.sampling_strategy) = name
        ELSE /\ pc = "raised"
             /\ exc.type = "ValueError"
             /\ exc.line = 21
             /\ \A p \in Permutations1(Len(args.datasets)) :
                   normalize_datasets(Permuted(args.datasets, p)).exc = exc

\* Three supported names given out of order were normalized.
C6_Witness ==
    /\ cmd = "train_mito_3d"
    /\ pc = "require_rfs"
    /\ args.datasets = <<"urocell", "lucchi", "platy">>
    /\ datasets = <<"lucchi", "platy", "urocell">>

\* C7: every dataset normalize_datasets accepts can be prepared: require_ds does not
\* raise for it and returns a non-empty list of data paths with the raw and label key.
C7_SupportedDatasetsPrepared ==
    (cmd = "train_mito_3d" /\ pc # "normalize" /\ Range(args.datasets) \subseteq Range(DATASETS)) =>
        /\ ~(pc = "raised" /\ exc.line \in 26..45)
        /\ \A d \in DOMAIN prepared :
              /\ Len(prepared[d].paths) > 0
              /\ prepared[d].raw_key = "raw"
              /\ prepared[d].label_key \in {"labels", "labels/mito"}

\* C10: for every selected dataset, get_loader looks for the forests in the folder
\* that was the out_folder of require_rfs_ds for it, and does not fail for an empty
\* forest list.
C10_ForestFolders ==
    (cmd = "train_mito_3d") =>
        /\ \A d \in DOMAIN rf_patterns :
              d \in DOMAIN out_folders /\ rf_patterns[d] = out_folders[d]
        /\ ~(pc = "raised" /\ exc.line = 107)

----------------------------------------------------------------------------
\* Properties of UNETR.forward.

\* C8: in a UNETR constructed with a module that is neither ViT_Sam nor ViT_MAE as
\* encoder and with use_skip_connection, forward completes: when it comes to the
\* skip connections the per-layer features from_encoder are bound, and it does not
\* raise there.
C8_SkipFeaturesDefined ==
    (/\ cmd = "UNETR.forward"
     /\ net.encoder.given_as = "module"
     /\ net.encoder.class \notin {"ViT_Sam", "ViT_MAE"}
     /\ net.use_skip_connection) =>
        /\ pc = "features" => from_encoder = "bound"
        /\ ~(pc = "raised" /\ exc.line \in 225..245)

\* C9: what forward returns has out_channels channels and the height and width of
\* the input given to forward, with and without resize_input, for inputs smaller
\* than, equal to and larger than the encoder's img_size.
C9_OutputShape ==
    (cmd = "UNETR.forward" /\ pc = "done") =>
        /\ x.c = net.out_channels
        /\ x.h = original_shape[1]
        /\ x.w = original_shape[2]

\* forward returned for a resized input higher than and narrower than img_size.
C9_Witness ==
    /\ cmd = "UNETR.forward"
    /\ pc = "done"
    /\ net.resize_input
    /\ original_shape[1] > net.encoder.img_size
    /\ original_shape[2] < net.encoder.img_size
    /\ input_shape # original_shape
    /\ net.out_channels > 1

----------------------------------------------------------------------------
\* Properties of the self-training logger.

TrainMethods == {"log_train_supervised", "log_train_unsupervised"}

ValidationMethods == {"log_validation_supervised", "log_validation_unsupervised"}

\* The writes of kind k among the writes w, in order.
OfKind(w, k) == SelectSeq(w, LAMBDA e : e.kind = k)

\* C11: every call of log_train_supervised or log_train_unsupervised writes the loss
\* scalar (one scalar, at the call's step) and writes one image grid exactly when
\* its step is a multiple of log_image_interval, step 0 included, and none
\* otherwise; every call of log_validation_supervised or
\* log_validation_unsupervised writes its two scalars (loss and metric) and one
\* image grid. Nothing written by an earlier call is removed.
C11_LoggedPerCall ==
    [][(cmd = LoggerCmd /\ Len(calls') = Len(calls) + 1) =>
          LET c == calls'[Len(calls')]
              written == SubSeq(tb', Len(tb) + 1, Len(tb'))
              scalars == OfKind(written, "scalar")
              grids == OfKind(written, "image")
          IN  /\ Len(tb') >= Len(tb)
              /\ SubSeq(tb', 1, Len(tb)) = tb
              /\ \A i \in DOMAIN written : written[i].global_step = c.step
              /\ c.method \in TrainMethods =>
                    /\ Len(scalars) = 1
                    /\ scalars[1].scalar_value = "loss"
                    /\ Len(grids) = IF c.step % logger.log_image_interval = 0 THEN 1 ELSE 0
              /\ c.method \in ValidationMethods =>
                    /\ Len(scalars) = 2
                    /\ {scalars[1].scalar_value, scalars[2].scalar_value} = {"loss", "metric"}
                    /\ Len(grids) = 1
      ]_vars

\* With an interval above 1, a training method was called at a step above 0 that
\* is a multiple of the interval and wrote scalar and grid, and a training method
\* was called at a step that is no multiple and wrote the scalar only.
C11_Witness ==
    /\ cmd = LoggerCmd
    /\ logger.log_image_interval > 1
    /\ Len(calls) = 2
    /\ calls[1].method = "log_train_supervised"
    /\ calls[1].step > 0
    /\ calls[1].step % logger.log_image_interval = 0
    /\ calls[2].method = "log_train_unsupervised"
    /\ calls[2].step % logger.log_image_interval # 0
    /\ Len(tb) = 3
    /\ tb[2].kind = "image"
    /\ tb[3].kind = "scalar"

====
